---- MODULE Spec2Model ----
(***************************************************************************)
(* rewrite_dates.py: resolve a hardcoded list of abbreviated commit        *)
(* references with `git rev-parse`, write date_filter.sh (one conditional  *)
(* block per resolved commit), chmod it and run `git filter-branch`.       *)
(*                                                                         *)
(* The script is one sequential process.  Its state is the position in the *)
(* script (pc, i, k), the dict `mapping`, the file object `f`, and the     *)
(* world it acts on: the file date_filter.sh, standard output, and the log *)
(* of the external commands it ran with their results.  The results of the *)
(* external commands are chosen by the environment.                        *)
(***************************************************************************)
EXTENDS Integers, Sequences, FiniteSets, TLC

VARIABLES pc, i, k, mapping, f, file, out, calls, exc, prev

vars == <<pc, i, k, mapping, f, file, out, calls, exc, prev>>

(***************************************************************************)
(* Bounds of the model.                                                    *)
(***************************************************************************)
\* how many entries of `commits` (a prefix of the list) the loop runs over
NumEntries == 3
\* how many distinct full identifiers the environment may answer with
NumFulls == 2

(***************************************************************************)
(* The hardcoded input (lines 4-16).                                       *)
(***************************************************************************)
commits ==
    << <<"afadbad", "2025-11-19T10:00:00">>,
       <<"32cac5d", "2025-11-19T14:00:00">>,
       <<"5555779", "2025-11-20T09:00:00">>,
       <<"09dcc55", "2025-11-20T11:00:00">>,
       <<"7b552ce", "2025-11-21T10:00:00">>,
       <<"cc7e692", "2025-11-21T16:00:00">>,
       <<"b8580ab", "2025-11-24T09:00:00">>,
       <<"d14d9d6", "2025-11-24T10:00:00">>,
       <<"540a291", "2025-11-25T11:00:00">>,
       <<"4d7c5ac", "2025-11-25T14:00:00">>,
       <<"74bc4e7", "2025-11-26T10:00:00">> >>

Min(a, b) == IF a < b THEN a ELSE b

\* the entries the loop of line 21 runs over
entries == SubSeq(commits, 1, Min(NumEntries, Len(commits)))

short(n) == entries[n][1]
date(n) == entries[n][2]

(***************************************************************************)
(* What the environment may answer.                                        *)
(***************************************************************************)
HashPool ==
    << "afadbad4c1e09f5b7d3a8e6c2b104f9d7e5a3c1b",
       "32cac5d8b7e6f5a4d3c2b1a09f8e7d6c5b4a3f2e",
       "55557791a2b3c4d5e6f708192a3b4c5d6e7f8091",
       "09dcc55f0e1d2c3b4a5968778695a4b3c2d1e0f9",
       "7b552ce00112233445566778899aabbccddeeff0" >>

\* the full identifiers `git rev-parse` may print
Fulls == { HashPool[n] : n \in 1..Min(NumFulls, Len(HashPool)) }

\* exit statuses: `git rev-parse` fails with 128; filter-branch ends with 0 or 1
RevParseFailCodes == {128}
ExitCodes == {0, 1}

\* rc of a command that has been started and has not exited yet
Running == 0 - 1

(***************************************************************************)
(* str.strip() (line 23).                                                  *)
(***************************************************************************)
Whitespace == {" ", "\n", "\t", "\r"}

RECURSIVE LStrip(_)
LStrip(s) ==
    IF Len(s) > 0 /\ SubSeq(s, 1, 1) \in Whitespace
    THEN LStrip(SubSeq(s, 2, Len(s)))
    ELSE s

RECURSIVE RStrip(_)
RStrip(s) ==
    IF Len(s) > 0 /\ SubSeq(s, Len(s), Len(s)) \in Whitespace
    THEN RStrip(SubSeq(s, 1, Len(s) - 1))
    ELSE s

Strip(s) == LStrip(RStrip(s))

(***************************************************************************)
(* The dict `mapping` (lines 18, 24, 32): a sequence of items in insertion *)
(* order; assigning to a key it holds replaces the value in place.         *)
(***************************************************************************)
Keys(m) == { m[n].full : n \in 1..Len(m) }

IndexOf(m, key) == CHOOSE n \in 1..Len(m) : m[n].full = key

\* faulty variants of the assignment: the first value is kept; the key moves to the end
DictSetKeepFirst(m, key, val) ==
    IF key \in Keys(m) THEN m ELSE Append(m, [full |-> key, date |-> val])

DictSetMoveToEnd(m, key, val) ==
    LET rest == SelectSeq(m, LAMBDA it : it.full # key)
    IN  Append(rest, [full |-> key, date |-> val])

DictSet(m, key, val) ==
    IF key \in Keys(m)
    THEN [m EXCEPT ![IndexOf(m, key)].date = val]
    ELSE Append(m, [full |-> key, date |-> val])

(***************************************************************************)
(* The lines of the script (lines 20-44).                                  *)
(***************************************************************************)
ResolvingMsg == "Resolving hashes..."
ResolvedMsg(s, full, d) == s \o " -> " \o full \o " -> " \o d
CouldNotResolveMsg(s) == "Could not resolve " \o s
RunningMsg == "Running git filter-branch..."
DoneMsg == "Done!"

FileName == "date_filter.sh"
Header == "#!/bin/sh\n"
IfPrefix == "if [ \"$GIT_COMMIT\" = \""
IfSuffix == "\" ]; then\n"
IfLine(full) == IfPrefix \o full \o IfSuffix
AuthorPrefix == "    export GIT_AUTHOR_DATE=\""
CommitterPrefix == "    export GIT_COMMITTER_DATE=\""
AuthorLine(d) == AuthorPrefix \o d \o "\"\n"
CommitterLine(d) == CommitterPrefix \o d \o "\"\n"
FiLine == "fi\n"

\* faulty variant: the committer date is written from another value
BlockCommitterFromKey(full, d) ==
    << IfLine(full), AuthorLine(d), CommitterLine(full), FiLine >>

\* the four writes of one iteration of the loop of line 32
Block(full, d) ==
    << IfLine(full), AuthorLine(d), CommitterLine(d), FiLine >>

\* permission bits: 0o755 of line 38, and those of a file open() creates
Mode755 == 7 * 64 + 5 * 8 + 5
ModeCreated == 6 * 64 + 4 * 8 + 4
OwnerExecutable(mode) == (mode \div 64) % 2 = 1

\* os.path.abspath (line 42) in the working directory of the run
Cwd == "/repo"
Abspath(p) == Cwd \o "/" \o p

RevParseCmd(s) == <<"git", "rev-parse", s>>
cmd == <<"git", "filter-branch", "--env-filter", Abspath(FileName),
         "--force", "--", "--all">>

\* faulty variant: the exit status is not checked
NeverRaises(rc) == FALSE

\* check=True / check_output: a non-zero exit status raises CalledProcessError
CheckRaises(rc) == rc # 0

(***************************************************************************)
(* open(name, "w"): the file is created or truncated; its mode is kept     *)
(* when it exists.                                                         *)
(***************************************************************************)
\* faulty variant: the file is opened with "a", what it holds is kept
OpenForAppend(fl) ==
    IF fl.exists THEN fl
    ELSE [exists |-> TRUE, content |-> <<>>, mode |-> ModeCreated]

OpenForWrite(fl) ==
    [exists |-> TRUE,
     content |-> <<>>,
     mode |-> IF fl.exists THEN fl.mode ELSE ModeCreated]

NoFile == [exists |-> FALSE, content |-> <<>>, mode |-> 0]
StaleFile == [exists |-> TRUE, content |-> <<"echo stale\n">>, mode |-> ModeCreated]
LeftoverFile ==
    [exists |-> TRUE,
     content |-> <<Header>> \o Block(HashPool[1], "2025-01-01T00:00:00"),
     mode |-> Mode755]
Closed == [open |-> FALSE, buf |-> <<>>]

(***************************************************************************)
(* The results of the resolution calls of the run, in call order.          *)
(***************************************************************************)
IsRevParse(c) == c.cmd[2] = "rev-parse"
IsRewrite(c) == c.cmd[2] = "filter-branch"
RevParseCalls == SelectSeq(calls, IsRevParse)
RewriteCalls == SelectSeq(calls, IsRewrite)
Outcomes == [n \in 1..Len(RevParseCalls) |->
                [rc |-> RevParseCalls[n].rc, stdout |-> RevParseCalls[n].stdout]]

(***************************************************************************)
(* Initial state: the script starts in a working directory where           *)
(* date_filter.sh is absent, is some other file, or is an executable       *)
(* filter left there earlier.                                              *)
(***************************************************************************)
Init ==
    /\ pc = "start"
    /\ i = 1
    /\ k = 1
    /\ mapping = <<>>
    /\ f = Closed
    /\ file \in {NoFile, StaleFile, LeftoverFile}
    /\ out = <<>>
    /\ calls = <<>>
    /\ exc = [type |-> "none", at |-> "none"]
    /\ prev = <<>>

\* lines 18-20
Start ==
    /\ pc = "start"
    /\ mapping' = <<>>
    /\ out' = Append(out, ResolvingMsg)
    /\ i' = 1
    /\ pc' = "loop"
    /\ UNCHANGED <<k, f, file, calls, exc, prev>>

\* lines 21-25: rev-parse exits 0 and prints `raw`
ResolveOk(raw) ==
    /\ pc = "loop"
    /\ i <= Len(entries)
    /\ calls' = Append(calls, [cmd |-> RevParseCmd(short(i)), rc |-> 0, stdout |-> raw])
    /\ LET full == Strip(raw)
       IN  /\ mapping' = DictSet(mapping, full, date(i))
           /\ out' = Append(out, ResolvedMsg(short(i), full, date(i)))
    /\ i' = i + 1
    /\ UNCHANGED <<pc, k, f, file, exc, prev>>

\* faulty variants of the except branch: the error is not caught; the call
\* is made again for the same entry; the loop is left
ResolveFailUncaught(rc) ==
    /\ pc = "loop"
    /\ i <= Len(entries)
    /\ CheckRaises(rc)
    /\ calls' = Append(calls, [cmd |-> RevParseCmd(short(i)), rc |-> rc, stdout |-> ""])
    /\ exc' = [type |-> "CalledProcessError", at |-> "resolve"]
    /\ pc' = "error"
    /\ UNCHANGED <<i, k, mapping, f, file, out, prev>>

ResolveFailRetry(rc) ==
    /\ pc = "loop"
    /\ i <= Len(entries)
    /\ CheckRaises(rc)
    /\ calls' = Append(calls, [cmd |-> RevParseCmd(short(i)), rc |-> rc, stdout |-> ""])
    /\ out' = Append(out, CouldNotResolveMsg(short(i)))
    /\ UNCHANGED <<pc, i, k, mapping, f, file, exc, prev>>

ResolveFailBreak(rc) ==
    /\ pc = "loop"
    /\ i <= Len(entries)
    /\ CheckRaises(rc)
    /\ calls' = Append(calls, [cmd |-> RevParseCmd(short(i)), rc |-> rc, stdout |-> ""])
    /\ out' = Append(out, CouldNotResolveMsg(short(i)))
    /\ pc' = "open"
    /\ UNCHANGED <<i, k, mapping, f, file, exc, prev>>

\* lines 21-23, 26-27: rev-parse exits non-zero, CalledProcessError is caught
ResolveFail(rc) ==
    /\ pc = "loop"
    /\ i <= Len(entries)
    /\ CheckRaises(rc)
    /\ calls' = Append(calls, [cmd |-> RevParseCmd(short(i)), rc |-> rc, stdout |-> ""])
    /\ out' = Append(out, CouldNotResolveMsg(short(i)))
    /\ i' = i + 1
    /\ UNCHANGED <<pc, k, mapping, f, file, exc, prev>>

\* line 21: the list is exhausted
LoopExit ==
    /\ pc = "loop"
    /\ i > Len(entries)
    /\ pc' = "open"
    /\ UNCHANGED <<i, k, mapping, f, file, out, calls, exc, prev>>

\* lines 30-31: open for writing, write the header into the buffer
OpenFile ==
    /\ pc = "open"
    /\ file' = OpenForWrite(file)
    /\ f' = [open |-> TRUE, buf |-> <<Header>>]
    /\ k' = 1
    /\ pc' = "emit"
    /\ UNCHANGED <<i, mapping, out, calls, exc, prev>>

\* lines 32-36: one iteration over mapping.items()
WriteBlock ==
    /\ pc = "emit"
    /\ k <= Len(mapping)
    /\ f' = [f EXCEPT !.buf = f.buf \o Block(mapping[k].full, mapping[k].date)]
    /\ k' = k + 1
    /\ UNCHANGED <<pc, i, mapping, file, out, calls, exc, prev>>

\* end of the with block of line 30: the buffer is flushed and the file closed
CloseFile ==
    /\ pc = "emit"
    /\ k > Len(mapping)
    /\ file' = [file EXCEPT !.content = file.content \o f.buf]
    /\ f' = Closed
    /\ pc' = "chmod"
    /\ UNCHANGED <<i, k, mapping, out, calls, exc, prev>>

\* faulty variant: the chmod of line 38 is left out
ChmodSkipped ==
    /\ pc = "chmod"
    /\ pc' = "run"
    /\ UNCHANGED <<i, k, mapping, f, file, out, calls, exc, prev>>

\* line 38
Chmod ==
    /\ pc = "chmod"
    /\ file' = [file EXCEPT !.mode = Mode755]
    /\ pc' = "run"
    /\ UNCHANGED <<i, k, mapping, f, out, calls, exc, prev>>

\* faulty variant: the rewrite is skipped when nothing was resolved
InvokeRewriteUnlessEmpty ==
    /\ pc = "run"
    /\ IF mapping = <<>>
       THEN /\ out' = Append(out, DoneMsg)
            /\ pc' = "done"
            /\ UNCHANGED calls
       ELSE /\ out' = Append(out, RunningMsg)
            /\ calls' = Append(calls, [cmd |-> cmd, rc |-> Running, stdout |-> ""])
            /\ pc' = "rewriting"
    /\ UNCHANGED <<i, k, mapping, f, file, exc, prev>>

\* lines 40-43: git filter-branch is started
InvokeRewrite ==
    /\ pc = "run"
    /\ out' = Append(out, RunningMsg)
    /\ calls' = Append(calls, [cmd |-> cmd, rc |-> Running, stdout |-> ""])
    /\ pc' = "rewriting"
    /\ UNCHANGED <<i, k, mapping, f, file, exc, prev>>

\* lines 43-44: git filter-branch exits with rc
RewriteExit(rc) ==
    /\ pc = "rewriting"
    /\ calls' = [calls EXCEPT ![Len(calls)].rc = rc]
    /\ IF CheckRaises(rc)
       THEN /\ exc' = [type |-> "CalledProcessError", at |-> "rewrite"]
            /\ pc' = "error"
            /\ UNCHANGED out
       ELSE /\ out' = Append(out, DoneMsg)
            /\ pc' = "done"
            /\ UNCHANGED exc
    /\ UNCHANGED <<i, k, mapping, f, file, prev>>

\* the script is run again in the same working directory
Restart ==
    /\ pc \in {"done", "error"}
    /\ prev' = << [outcomes |-> Outcomes, mapping |-> mapping, content |-> file.content] >>
    /\ pc' = "start"
    /\ i' = 1
    /\ k' = 1
    /\ mapping' = <<>>
    /\ f' = Closed
    /\ out' = <<>>
    /\ calls' = <<>>
    /\ exc' = [type |-> "none", at |-> "none"]
    /\ UNCHANGED file

\* one run of the script
Next ==
    \/ Start
    \/ \E full \in Fulls : ResolveOk(full \o "\n")
    \/ \E rc \in RevParseFailCodes : ResolveFail(rc)
    \/ LoopExit
    \/ OpenFile
    \/ WriteBlock
    \/ CloseFile
    \/ Chmod
    \/ InvokeRewrite
    \/ \E rc \in ExitCodes : RewriteExit(rc)

Spec == Init /\ [][Next]_vars

\* runs of the script one after the other in the same working directory
NextRerun ==
    \/ Next
    \/ Restart

SpecRerun == Init /\ [][NextRerun]_vars

(***************************************************************************)
(* The same script where, besides exiting non-zero, a step may raise       *)
(* OSError: git cannot be started (FileNotFoundError), the file cannot be  *)
(* opened or flushed, its mode cannot be changed.  Only                    *)
(* subprocess.CalledProcessError is caught (line 26), and only in the      *)
(* loop.                                                                   *)
(***************************************************************************)
Raise(type, at) ==
    /\ exc' = [type |-> type, at |-> at]
    /\ pc' = "error"

\* line 23: check_output cannot start git; the except of line 26 does not match
ResolveOSError ==
    /\ pc = "loop"
    /\ i <= Len(entries)
    /\ Raise("OSError", "resolve")
    /\ UNCHANGED <<i, k, mapping, f, file, out, calls, prev>>

\* line 30: open() fails
OpenOSError ==
    /\ pc = "open"
    /\ Raise("OSError", "open")
    /\ UNCHANGED <<i, k, mapping, f, file, out, calls, prev>>

\* lines 30-36: the flush at the end of the with block fails
WriteOSError ==
    /\ pc = "emit"
    /\ k > Len(mapping)
    /\ f' = Closed
    /\ Raise("OSError", "write")
    /\ UNCHANGED <<i, k, mapping, file, out, calls, prev>>

\* line 38: os.chmod fails
ChmodOSError ==
    /\ pc = "chmod"
    /\ Raise("OSError", "chmod")
    /\ UNCHANGED <<i, k, mapping, f, file, out, calls, prev>>

\* lines 40-43: subprocess.run cannot start git
RewriteOSError ==
    /\ pc = "run"
    /\ out' = Append(out, RunningMsg)
    /\ Raise("OSError", "rewrite")
    /\ UNCHANGED <<i, k, mapping, f, file, calls, prev>>

NextOS ==
    \/ Next
    \/ ResolveOSError
    \/ OpenOSError
    \/ WriteOSError
    \/ ChmodOSError
    \/ RewriteOSError

SpecOS == Init /\ [][NextOS]_vars

(***************************************************************************)
(* Vocabulary of the properties.                                           *)
(***************************************************************************)
Range(q) == { q[n] : n \in 1..Len(q) }
Count(q, x) == Cardinality({ n \in 1..Len(q) : q[n] = x })

\* the filter file of this run has been written and closed
Emitted == pc \in {"chmod", "run", "rewriting", "done"} \/ (pc = "error" /\ exc.at = "rewrite")

\* what the resolution calls of the run returned: for each entry submitted,
\* whether its call succeeded and the identifier printed (the output without
\* its line end)
Resolution ==
    LET rp == RevParseCalls
    IN  [n \in 1..Len(rp) |->
            [ok |-> rp[n].rc = 0,
             full |-> IF rp[n].rc = 0
                      THEN SubSeq(rp[n].stdout, 1, Len(rp[n].stdout) - 1)
                      ELSE ""]]
AllSubmitted == Len(RevParseCalls) = Len(entries)

\* over such a sequence res: the entries that resolved, the identifiers they
\* resolved to, the first and the last entry that resolved to F
ResolvedIn(res) == { n \in 1..Len(res) : res[n].ok }
FailedIn(res) == { n \in 1..Len(res) : ~res[n].ok }
FullsIn(res) == { res[n].full : n \in ResolvedIn(res) }
EntriesFor(res, F) == { n \in 1..Len(res) : res[n].ok /\ res[n].full = F }
FirstEntryFor(res, F) ==
    LET E == EntriesFor(res, F) IN CHOOSE n \in E : \A m \in E : n <= m
LastEntryFor(res, F) ==
    LET E == EntriesFor(res, F) IN CHOOSE n \in E : \A m \in E : m <= n

\* the lines of the file where a block guarded by F starts, and a whole block there
GuardsAt(c, F) == LET g == IfLine(F) IN { j \in 1..Len(c) : c[j] = g }
IsGuard(line) == Len(line) > Len(IfPrefix) /\ SubSeq(line, 1, Len(IfPrefix)) = IfPrefix
AllGuards(c) == { j \in 1..Len(c) : IsGuard(c[j]) }
BlockAt(c, j, F, d) ==
    /\ j + 3 <= Len(c)
    /\ c[j] = IfLine(F)
    /\ c[j + 1] = AuthorLine(d)
    /\ c[j + 2] = CommitterLine(d)
    /\ c[j + 3] = FiLine

\* the value between the prefix and the closing quote of an export line
HasPrefix(line, pre) == Len(line) >= Len(pre) /\ SubSeq(line, 1, Len(pre)) = pre
ExportedValue(line, pre) == SubSeq(line, Len(pre) + 1, Len(line) - 2)

\* ISO-8601 shapes
Digits == {"0", "1", "2", "3", "4", "5", "6", "7", "8", "9"}
Ch(s, n) == SubSeq(s, n, n)
AllDigits(s) == \A n \in 1..Len(s) : Ch(s, n) \in Digits
\* YYYY-MM-DDTHH:MM:SS
IsLocalDateTime(s) ==
    /\ Len(s) = 19
    /\ AllDigits(SubSeq(s, 1, 4)) /\ Ch(s, 5) = "-"
    /\ AllDigits(SubSeq(s, 6, 7)) /\ Ch(s, 8) = "-"
    /\ AllDigits(SubSeq(s, 9, 10)) /\ Ch(s, 11) = "T"
    /\ AllDigits(SubSeq(s, 12, 13)) /\ Ch(s, 14) = ":"
    /\ AllDigits(SubSeq(s, 15, 16)) /\ Ch(s, 17) = ":"
    /\ AllDigits(SubSeq(s, 18, 19))
\* Z, +hh, +hhmm or +hh:mm (or -) 
IsOffset(z) ==
    \/ z = "Z"
    \/ /\ Len(z) \in {3, 5, 6}
       /\ Ch(z, 1) \in {"+", "-"}
       /\ AllDigits(SubSeq(z, 2, 3))
       /\ Len(z) = 5 => AllDigits(SubSeq(z, 4, 5))
       /\ Len(z) = 6 => Ch(z, 4) = ":" /\ AllDigits(SubSeq(z, 5, 6))
HasTzOffset(s) ==
    /\ Len(s) > 19
    /\ IsLocalDateTime(SubSeq(s, 1, 19))
    /\ IsOffset(SubSeq(s, 20, Len(s)))

(***************************************************************************)
(* C1                                                                      *)
(***************************************************************************)
\* C1 as stated: once the file is written, every entry that resolved to F
\* has exactly one block guarded by F in the file, and that block exports
\* both dates equal to the entry's own date, whatever the calls returned.
C1_AsStated ==
    Emitted =>
        LET res == Resolution
            c == file.content
        IN  \A n \in ResolvedIn(res) :
                /\ Cardinality(GuardsAt(c, res[n].full)) = 1
                /\ \A j \in GuardsAt(c, res[n].full) :
                       BlockAt(c, j, res[n].full, date(n))

\* C1 amended: once the file is written, every entry that resolved to F has
\* exactly one block guarded by F in the file, and that block exports both
\* dates equal to the date of the last entry of the list that resolved to F
\* (the entry's own date when no later entry resolved to the same F).
C1_EachResolvedEntryHasItsBlock ==
    Emitted =>
        LET res == Resolution
            c == file.content
        IN  \A n \in ResolvedIn(res) :
                /\ Cardinality(GuardsAt(c, res[n].full)) = 1
                /\ \A j \in GuardsAt(c, res[n].full) :
                       BlockAt(c, j, res[n].full, date(LastEntryFor(res, res[n].full)))

\* two entries resolved to one identifier, a third to another, file written
C1_Witness ==
    /\ pc = "done"
    /\ LET res == Resolution
       IN  /\ \E n, m \in ResolvedIn(res) : n < m /\ res[n].full = res[m].full
           /\ Cardinality(FullsIn(res)) = 2

(***************************************************************************)
(* C2                                                                      *)
(***************************************************************************)
\* C2: an entry whose resolution call failed is not in the mapping (the keys
\* of the mapping are exactly the identifiers of the entries that resolved,
\* and the file has no block beyond those), "Could not resolve <short>" is
\* printed for it once, it was called once (the calls made so far are the
\* first entries of the list, one call each, in order), and the loop goes
\* on: whenever the script is past the loop every entry has been submitted.
C2_FailedEntrySkipped ==
    LET res == Resolution
        rp == RevParseCalls
    IN  /\ Keys(mapping) = FullsIn(res)
        /\ \A n \in 1..Len(rp) : rp[n].cmd = RevParseCmd(short(n))
        /\ \A n \in FailedIn(res) :
               /\ Count(out, CouldNotResolveMsg(short(n))) = 1
               /\ \A F \in Fulls : ResolvedMsg(short(n), F, date(n)) \notin Range(out)
        /\ pc = "loop" => Len(rp) = i - 1
        /\ pc \notin {"start", "loop"} => Len(rp) = Len(entries)
        /\ Emitted => Cardinality(AllGuards(file.content)) = Cardinality(FullsIn(res))

\* the first entry failed, a later one resolved, and the run completed
C2_Witness ==
    /\ pc = "done"
    /\ 1 \in FailedIn(Resolution)
    /\ \E n \in ResolvedIn(Resolution) : n > 1

(***************************************************************************)
(* C3                                                                      *)
(***************************************************************************)
\* C3: when git filter-branch has exited non-zero the run is in the error
\* state with CalledProcessError and "Done!" is not on the output; "Done!"
\* is on the output only when the one rewrite call has exited with 0.
C3_DoneOnlyAfterSuccessfulRewrite ==
    /\ \A n \in 1..Len(RewriteCalls) :
           RewriteCalls[n].rc \notin {0, Running} =>
               /\ pc = "error"
               /\ exc = [type |-> "CalledProcessError", at |-> "rewrite"]
               /\ DoneMsg \notin Range(out)
    /\ DoneMsg \in Range(out) =>
           /\ Len(RewriteCalls) = 1
           /\ RewriteCalls[1].rc = 0
           /\ pc = "done"

\* the rewrite has exited non-zero
C3_Witness ==
    /\ Len(RewriteCalls) = 1
    /\ RewriteCalls[1].rc = 1
    /\ pc = "error"

(***************************************************************************)
(* C4 (specification SpecOS)                                               *)
(***************************************************************************)
\* C4 as stated: the run ends in an error only through a failing rewrite
\* invocation (its non-zero exit); no other step can end it in an error.
C4_AsStated ==
    pc = "error" => exc = [type |-> "CalledProcessError", at |-> "rewrite"]

\* C4 amended: a resolution call that exits non-zero never ends the run (it
\* is logged, the entry left out of the mapping, and the loop goes on), and
\* a run that ends in an error does so either because the rewrite invocation
\* exited non-zero or because a step (starting git for a resolution or for
\* the rewrite, opening or writing the file, changing its mode) raised an
\* exception other than CalledProcessError, which the script does not catch.
C4_ErrorsThatEndTheRun ==
    LET res == Resolution
    IN  /\ Keys(mapping) \subseteq FullsIn(res)
        /\ \A n \in FailedIn(res) :
               /\ CouldNotResolveMsg(short(n)) \in Range(out)
               /\ (n < Len(entries) /\ pc \notin {"loop", "error"}) => Len(res) > n
        /\ pc = "error" <=> exc.type # "none"
        /\ pc = "error" =>
               \/ /\ exc = [type |-> "CalledProcessError", at |-> "rewrite"]
                  /\ Len(RewriteCalls) = 1
                  /\ RewriteCalls[1].rc \notin {0, Running}
               \/ /\ exc.type = "OSError"
                  /\ exc.at \in {"resolve", "open", "write", "chmod", "rewrite"}

\* a resolution failed and was recovered, then the file could not be opened
C4_Witness ==
    /\ pc = "error"
    /\ exc = [type |-> "OSError", at |-> "open"]
    /\ 1 \in FailedIn(Resolution)
    /\ AllSubmitted

(***************************************************************************)
(* C5                                                                      *)
(***************************************************************************)
\* C5: when no entry resolved, the file is still written with the header
\* line alone, is made executable, and the rewrite is invoked exactly once.
C5_EmptyMappingStillRuns ==
    (AllSubmitted /\ ResolvedIn(Resolution) = {}) =>
        /\ mapping = <<>>
        /\ Emitted => (file.exists /\ file.content = <<Header>>)
        /\ pc \in {"run", "rewriting", "done", "error"} => OwnerExecutable(file.mode)
        /\ pc \in {"rewriting", "done", "error"} =>
               (Len(RewriteCalls) = 1 /\ RewriteCalls[1].cmd = cmd)

\* no entry resolved and the run completed
C5_Witness ==
    /\ AllSubmitted
    /\ ResolvedIn(Resolution) = {}
    /\ pc = "done"
    /\ file.content = <<Header>>
    /\ file.mode = Mode755

(***************************************************************************)
(* C6                                                                      *)
(***************************************************************************)
\* C6: whenever the rewrite command has been started, the file exists, is
\* closed, holds the header and every block of the mapping and nothing
\* else, and is executable.
C6_FileReadyBeforeRewrite ==
    Len(RewriteCalls) > 0 =>
        /\ file.exists
        /\ ~f.open
        /\ Len(file.content) = 1 + 4 * Len(mapping)
        /\ file.content[1] = Header
        /\ \A n \in 1..Len(mapping) :
               BlockAt(file.content, 4 * n - 2, mapping[n].full, mapping[n].date)
        /\ OwnerExecutable(file.mode)

\* the rewrite is running, the file holds two blocks
C6_Witness ==
    /\ pc = "rewriting"
    /\ Len(mapping) = 2
    /\ Len(file.content) = 9
    /\ file.mode = Mode755

(***************************************************************************)
(* C7                                                                      *)
(***************************************************************************)
\* C7: the resolution calls of a run are the entries of the list, one call
\* each, in list order; the rewrite is invoked at most once and is the last
\* call, after all the resolution calls; once the file has been opened the
\* resolution calls are exactly those of the whole list (none is added).
C7_CallOrder ==
    LET rp == RevParseCalls
        rw == RewriteCalls
    IN  /\ Len(rp) <= Len(entries)
        /\ \A n \in 1..Len(rp) : rp[n].cmd = RevParseCmd(short(n))
        /\ Len(rw) <= 1
        /\ Len(rw) = 1 =>
               /\ IsRewrite(calls[Len(calls)])
               /\ Len(rp) = Len(entries)
               /\ SubSeq(calls, 1, Len(calls) - 1) = rp
        /\ (f.open \/ pc \in {"emit", "chmod", "run", "rewriting", "done", "error"}) =>
               /\ Len(rp) = Len(entries)
               /\ Len(calls) = Len(entries) + Len(rw)

\* a run with an early failure made every call and finished
C7_Witness ==
    /\ pc \in {"done", "error"}
    /\ 1 \in FailedIn(Resolution)
    /\ Len(calls) = Len(entries) + 1

(***************************************************************************)
(* C8 (specification SpecRerun)                                            *)
(***************************************************************************)
\* C8: in a run that follows another, when the resolution calls returned
\* what they returned in the previous run, the mapping and the content of
\* the file are those of the previous run.
C8_RerunIdempotent ==
    (prev # <<>> /\ Emitted /\ Outcomes = prev[1].outcomes) =>
        /\ mapping = prev[1].mapping
        /\ file.content = prev[1].content

\* a second run with the same, non-empty, outcomes has completed
C8_Witness ==
    /\ prev # <<>>
    /\ pc = "done"
    /\ Outcomes = prev[1].outcomes
    /\ Len(mapping) = 2

(***************************************************************************)
(* C9                                                                      *)
(***************************************************************************)
\* C9 as stated: every date of the mapping is an ISO-8601 string with a time
\* zone offset, and so is every exported value; author and committer values
\* of a block are the same string.
C9_AsStated ==
    /\ \A n \in 1..Len(mapping) : HasTzOffset(mapping[n].date)
    /\ Emitted =>
           LET c == file.content
           IN  \A j \in 1..Len(c) :
                   HasPrefix(c[j], AuthorPrefix) =>
                       /\ HasTzOffset(ExportedValue(c[j], AuthorPrefix))
                       /\ j < Len(c)
                       /\ HasPrefix(c[j + 1], CommitterPrefix)
                       /\ ExportedValue(c[j + 1], CommitterPrefix)
                            = ExportedValue(c[j], AuthorPrefix)

\* C9 amended: every date of the mapping, and every exported value, is an
\* ISO-8601 local date-time YYYY-MM-DDTHH:MM:SS without a time zone offset;
\* author and committer values of a block are the same string.
C9_LocalDateTimesSameInBlock ==
    /\ \A n \in 1..Len(mapping) :
           IsLocalDateTime(mapping[n].date) /\ ~HasTzOffset(mapping[n].date)
    /\ Emitted =>
           LET c == file.content
               authors == { j \in 1..Len(c) : HasPrefix(c[j], AuthorPrefix) }
           IN  /\ Cardinality(authors) = Len(mapping)
               /\ \A j \in authors :
                      /\ IsLocalDateTime(ExportedValue(c[j], AuthorPrefix))
                      /\ j < Len(c)
                      /\ HasPrefix(c[j + 1], CommitterPrefix)
                      /\ ExportedValue(c[j + 1], CommitterPrefix)
                           = ExportedValue(c[j], AuthorPrefix)

\* a file with two blocks has been written
C9_Witness ==
    /\ pc = "run"
    /\ Len(mapping) = 2
    /\ Len(file.content) = 9

(***************************************************************************)
(* C10                                                                     *)
(***************************************************************************)
\* C10: the file has one block per distinct resolved identifier and no
\* other block; the block of F carries the date of the last entry that
\* resolved to F, and is the r-th block of the file, r being the rank of F
\* among the identifiers ordered by the first entry that resolved to each.
C10_OneBlockPerIdentifier ==
    Emitted =>
        LET res == Resolution
            c == file.content
            ids == FullsIn(res)
            first == [F \in ids |-> FirstEntryFor(res, F)]
            rank == [F \in ids |-> Cardinality({ G \in ids : first[G] <= first[F] })]
        IN  /\ Len(c) = 1 + 4 * Cardinality(ids)
            /\ Cardinality(AllGuards(c)) = Cardinality(ids)
            /\ \A F \in ids :
                   /\ GuardsAt(c, F) = { 4 * rank[F] - 2 }
                   /\ BlockAt(c, 4 * rank[F] - 2, F, date(LastEntryFor(res, F)))

\* F, G, F: the block of F is first and carries the date of the third entry
C10_Witness ==
    /\ pc = "done"
    /\ Len(entries) >= 3
    /\ LET res == Resolution
       IN  /\ res[1].ok /\ res[2].ok /\ res[3].ok
           /\ res[1].full = res[3].full
           /\ res[1].full # res[2].full
           /\ file.content[2] = IfLine(res[1].full)
           /\ file.content[3] = AuthorLine(date(3))
           /\ file.content[6] = IfLine(res[2].full)

====
